---- MODULE Spec2Model ----
(***************************************************************************)
(* The Dialog component (src/unnamed/part_001) and the hosts that drive it *)
(* (src/src/components/Dialog/Dialog.stories.tsx).                         *)
(*                                                                         *)
(* A Dialog instance is a function of its props plus two effects: the      *)
(* scroll-lock effect, which writes document.body.style.overflow, and the  *)
(* keydown effect, which registers a listener on the document.  The state  *)
(* is what those effects leave behind: the body's overflow, the document's *)
(* keydown listeners, each instance's rendered elements and the closures   *)
(* its effect cleanups captured.  Input events (keydown, click) run the    *)
(* handlers and record which handlers ran and which invoked onClose.       *)
(***************************************************************************)
EXTENDS Naturals, Sequences, FiniteSets

VARIABLES
  mounted,     \* [Dialogs -> BOOLEAN]: the instance is in the React tree
  props,       \* [Dialogs -> props of the latest render, or NoProps]
  view,        \* [Dialogs -> set of elements the latest render returned]
  style,       \* [Dialogs -> the styles the latest render gave the backdrop
               \* and the panel, or None]
  scrollDeps,  \* [Dialogs -> what the scroll-lock effect's cleanup captured]
  keyHandler,  \* [Dialogs -> the handleKeyDown closure the cleanup captured]
  listeners,   \* document's keydown listeners, in registration order
  overflow,    \* document.body.style.overflow
  log,         \* the last step: its kind, the handlers run, the onClose calls
  seqStart,    \* history: open and overflow when the current run of toggles
               \* of `open` began
  everOpen,    \* history: [Dialogs -> the instance was rendered open at some
               \* time since its latest mount]
  play         \* the AuthForm story whose play function runs: the story, the
               \* call stack, the focused element, the text userEvent.type
               \* has still to key in, the userEvent calls completed

vars == <<mounted, props, view, style, scrollDeps, keyHandler, listeners, overflow,
          log, seqStart, everOpen, play>>

\* The variables of the Dialog and of its hosts.
dialogVars == <<mounted, props, view, style, scrollDeps, keyHandler, listeners,
                overflow, log, seqStart, everOpen>>

----------------------------------------------------------------------------
(* Values *)

Dialogs == {"primary", "secondary"}

\* The instance the single-dialog specification mounts.
TheDialog == "primary"

\* Identities of the functions a host passes as onClose.
Callbacks == {"cbA", "cbB"}

\* Values of document.body.style.overflow: the two the component writes and
\* one only a host writes.
OverflowValues == {"", "hidden", "auto"}

Keys == {"Escape", "Enter"}

\* The elements of the rendered tree.
Elements == {"backdrop", "panel", "header", "closeButton", "content"}

NoProps == [none |-> TRUE]

\* No AuthForm story is playing.
PlayIdle ==
  [story |-> "none", stack |-> <<>>, focus |-> "", typing |-> <<>>,
   interactions |-> <<>>]

None == [none |-> TRUE]

\* DialogSize
Sizes == {"small", "medium", "large", "fullscreen"}

\* The props of an arbitrary host's render (React.FC<DialogProps>,
\* destructured).  Here size and fullWidth stay at their defaults; the hosts
\* of SpecDefaults pass every value of them.
PropsSet ==
  [open: BOOLEAN, showCloseButton: BOOLEAN, closeOnOutsideClick: BOOLEAN,
   closeOnEscape: BOOLEAN, onClose: Callbacks, showBackdrop: BOOLEAN,
   disableBodyScroll: BOOLEAN, usePortal: BOOLEAN,
   size: {"medium"}, fullWidth: {FALSE}]

\* Mutant: closeOnEscape defaults to false.
DefaultPropsEscapeOff(open, onClose) ==
  [open |-> open, showCloseButton |-> TRUE, closeOnOutsideClick |-> TRUE,
   closeOnEscape |-> FALSE, onClose |-> onClose, showBackdrop |-> TRUE,
   disableBodyScroll |-> TRUE, usePortal |-> TRUE,
   size |-> "medium", fullWidth |-> FALSE]

\* The defaults of the destructuring, for a host that passes open and onClose.
DefaultProps(open, onClose) ==
  [open |-> open, showCloseButton |-> TRUE, closeOnOutsideClick |-> TRUE,
   closeOnEscape |-> TRUE, onClose |-> onClose, showBackdrop |-> TRUE,
   disableBodyScroll |-> TRUE, usePortal |-> TRUE,
   size |-> "medium", fullWidth |-> FALSE]

----------------------------------------------------------------------------
(* The scroll-lock effect *)

\* Mutant: the effect returns no cleanup.
ScrollCleanupMissing(c, ov) == ov

\* The effect body: lock when disableBodyScroll and open.
ScrollEffect(p, ov) ==
  IF p.disableBodyScroll /\ p.open THEN "hidden" ELSE ov

\* The cleanup, with the disableBodyScroll its closure captured.
ScrollCleanup(c, ov) ==
  IF c.disableBodyScroll THEN "" ELSE ov

\* The dependency array [open, disableBodyScroll].
ScrollDepsOf(p) == [open |-> p.open, disableBodyScroll |-> p.disableBodyScroll]

----------------------------------------------------------------------------
(* The keydown effect *)

\* Mutant: the handler does not look at the open it captured.
handleKeyDownIgnoringOpen(h, key) ==
  h.closeOnEscape /\ key = "Escape"

\* Mutant: the handler does not look at the key.
handleKeyDownAnyKey(h, key) ==
  h.closeOnEscape /\ h.open

\* handleKeyDown of the closure h on a key: whether it invokes onClose.
handleKeyDown(h, key) ==
  h.closeOnEscape /\ key = "Escape" /\ h.open

\* A fresh function identity: the least id no registered listener has.
FreshId(ls) ==
  CHOOSE i \in 1..(Len(ls) + 1) :
    /\ \A k \in 1..Len(ls) : ls[k].id # i
    /\ \A j \in 1..(Len(ls) + 1) :
         (\A k \in 1..Len(ls) : ls[k].id # j) => i <= j

\* The closure the effect creates for instance d rendered with props p.
NewHandler(d, p, ls) ==
  [id |-> FreshId(ls), owner |-> d, closeOnEscape |-> p.closeOnEscape,
   open |-> p.open, onClose |-> p.onClose]

\* document.addEventListener('keydown', h)
AddListener(ls, h) == Append(ls, h)

\* Mutant: the cleanup removes nothing.
RemoveNothing(ls, h) == ls

\* document.removeEventListener('keydown', h): drops the listener that is h.
RemoveListener(ls, h) ==
  SelectSeq(ls, LAMBDA x : x.id # h.id)

\* Mutant: onClose is missing from the dependency array.
KeyDepsWithoutOnClose(p) ==
  [closeOnEscape |-> p.closeOnEscape, onClose |-> "cbA", open |-> p.open]

\* The dependency array [closeOnEscape, onClose, open].
KeyDepsOf(p) ==
  [closeOnEscape |-> p.closeOnEscape, onClose |-> p.onClose, open |-> p.open]

KeyDepsOfHandler(h) ==
  [closeOnEscape |-> h.closeOnEscape, onClose |-> h.onClose, open |-> h.open]

----------------------------------------------------------------------------
(* Rendering *)

\* What the component returns: null (no element) when not open, else the
\* backdrop, the panel and its content, and the header with the close
\* button when showCloseButton.  The title, which also brings the header in,
\* and the actions carry no handler of the component and are left out;
\* showBackdrop only sets the backdrop's display style and usePortal only
\* the node the tree is attached to.
Render(p) ==
  IF ~p.open THEN {}
  ELSE {"backdrop", "panel", "content"}
         \cup (IF p.showCloseButton THEN {"header", "closeButton"} ELSE {})

\* Mutant: the large case carries the medium width.
getSizeStylesLargeAsMedium(size, fullWidth) ==
  CASE size = "small" ->
         [width |-> IF fullWidth THEN "100%" ELSE "400px", maxWidth |-> "90vw"]
    [] size = "fullscreen" ->
         [width |-> "100vw", height |-> "100vh", maxWidth |-> "100vw",
          maxHeight |-> "100vh", margin |-> "0", borderRadius |-> "0"]
    [] OTHER ->
         [width |-> IF fullWidth THEN "100%" ELSE "600px", maxWidth |-> "90vw"]

\* getSizeStyles(size, fullWidth)
getSizeStyles(size, fullWidth) ==
  CASE size = "small" ->
         [width |-> IF fullWidth THEN "100%" ELSE "400px", maxWidth |-> "90vw"]
    [] size = "large" ->
         [width |-> IF fullWidth THEN "100%" ELSE "800px", maxWidth |-> "90vw"]
    [] size = "fullscreen" ->
         [width |-> "100vw", height |-> "100vh", maxWidth |-> "100vw",
          maxHeight |-> "100vh", margin |-> "0", borderRadius |-> "0"]
    [] OTHER ->
         [width |-> IF fullWidth THEN "100%" ELSE "600px", maxWidth |-> "90vw"]

\* The inline style of DialogBackdrop.
BackdropStyle(p) == [display |-> IF p.showBackdrop THEN "flex" ELSE "none"]

\* The styles of the rendered tree: the backdrop's inline style and the
\* declarations getSizeStyles gives the panel; None when nothing is rendered.
RenderStyle(p) ==
  IF ~p.open THEN None
  ELSE [backdrop |-> BackdropStyle(p),
        panel    |-> getSizeStyles(p.size, p.fullWidth)]

\* Whether the browser displays element el of a tree with styles st: it is
\* rendered, and neither it nor an ancestor has display: none.  The backdrop
\* is the root of the tree and the only element with a display style.
Displayed(elements, st, el) ==
  /\ el \in elements
  /\ st.backdrop.display # "none"

----------------------------------------------------------------------------
(* Click dispatch *)

\* The parent of an element in the rendered tree (backdrop is the root).
Parent(el) ==
  CASE el = "closeButton" -> "header"
    [] el = "header"      -> "panel"
    [] el = "content"     -> "panel"
    [] el = "panel"       -> "backdrop"
    [] OTHER              -> "backdrop"

\* Mutant: the handler sees outside clicks only when rendered inline.
handleBackdropClickInlineOnly(p, target, currentTarget) ==
  p.closeOnOutsideClick /\ target = currentTarget /\ ~p.usePortal

\* Mutant: the handler does not look at closeOnOutsideClick.
handleBackdropClickUnconditional(p, target, currentTarget) ==
  target = currentTarget

\* handleBackdropClick: whether it invokes onClose.
handleBackdropClick(p, target, currentTarget) ==
  p.closeOnOutsideClick /\ target = currentTarget

\* Whether the element carries an onClick handler.
HasOnClick(el) == el \in {"backdrop", "panel", "closeButton"}

\* Mutant: the close button dismisses only when closeOnOutsideClick.
InvokesOnCloseFlagged(p, el, target) ==
  CASE el = "closeButton" -> p.closeOnOutsideClick
    [] el = "backdrop"    -> handleBackdropClick(p, target, el)
    [] OTHER              -> FALSE

\* Whether the element's onClick invokes onClose for a click on target.
InvokesOnClose(p, el, target) ==
  CASE el = "closeButton" -> TRUE
    [] el = "backdrop"    -> handleBackdropClick(p, target, el)
    [] OTHER              -> FALSE

\* Mutant: the panel does not stop the click.
StopsNothing(el) == FALSE

\* Whether the element's onClick calls event.stopPropagation().
StopsPropagation(el) == el = "panel"

\* The click bubbling from element el (the target's ancestors in turn) up to
\* the root or to a handler that stops it: the handlers run and the onClose
\* calls made, appended to acc.
RECURSIVE Bubble(_, _, _, _)
Bubble(p, target, el, acc) ==
  LET ran   == IF HasOnClick(el) THEN Append(acc.ran, el) ELSE acc.ran
      calls == IF HasOnClick(el) /\ InvokesOnClose(p, el, target)
               THEN Append(acc.calls, [by |-> el, cb |-> p.onClose])
               ELSE acc.calls
      next  == [ran |-> ran, calls |-> calls]
  IN  IF el = "backdrop" \/ (HasOnClick(el) /\ StopsPropagation(el))
      THEN next
      ELSE Bubble(p, target, Parent(el), next)

\* A click on target in a dialog rendered with props p.
DispatchClick(p, target) ==
  Bubble(p, target, target, [ran |-> <<>>, calls |-> <<>>])

----------------------------------------------------------------------------
(* Keydown dispatch *)

\* Mutant: the first listener that invokes onClose stops the event
\* (stopImmediatePropagation), so only one Dialog is asked to close.
RECURSIVE DispatchKeyFirstOnly(_, _, _)
DispatchKeyFirstOnly(ls, key, acc) ==
  IF ls = <<>> \/ acc.calls # <<>> THEN acc
  ELSE LET h == Head(ls)
       IN  DispatchKeyFirstOnly(Tail(ls), key,
             [ran   |-> Append(acc.ran, h.owner),
              calls |-> IF handleKeyDown(h, key)
                        THEN Append(acc.calls, [by |-> "keydown", cb |-> h.onClose])
                        ELSE acc.calls])

\* The document's listeners run in registration order; each is the closure
\* of the render that registered it.
RECURSIVE DispatchKey(_, _, _)
DispatchKey(ls, key, acc) ==
  IF ls = <<>> THEN acc
  ELSE LET h == Head(ls)
       IN  DispatchKey(Tail(ls), key,
             [ran   |-> Append(acc.ran, h.owner),
              calls |-> IF handleKeyDown(h, key)
                        THEN Append(acc.calls, [by |-> "keydown", cb |-> h.onClose])
                        ELSE acc.calls])

----------------------------------------------------------------------------
(* Steps *)

HostLog(kind, d) ==
  [kind |-> kind, dialog |-> d, arg |-> "", ran |-> <<>>, calls |-> <<>>]

EventLog(kind, d, arg, r) ==
  [kind |-> kind, dialog |-> d, arg |-> arg, ran |-> r.ran, calls |-> r.calls]

\* First render of instance d with props p: the element tree, then both
\* effects.
Mount(d, p) ==
  /\ ~mounted[d]
  /\ LET h == NewHandler(d, p, listeners)
     IN  /\ mounted' = [mounted EXCEPT ![d] = TRUE]
         /\ props' = [props EXCEPT ![d] = p]
         /\ view' = [view EXCEPT ![d] = Render(p)]
         /\ style' = [style EXCEPT ![d] = RenderStyle(p)]
         /\ overflow' = ScrollEffect(p, overflow)
         /\ scrollDeps' = [scrollDeps EXCEPT ![d] = ScrollDepsOf(p)]
         /\ listeners' = AddListener(listeners, h)
         /\ keyHandler' = [keyHandler EXCEPT ![d] = h]
         /\ seqStart' = [open |-> p.open, overflow |-> overflow']
         /\ everOpen' = [everOpen EXCEPT ![d] = p.open]
         /\ log' = HostLog("mount", d)
         /\ UNCHANGED play

\* The order in which React runs the effects of sibling instances.
DialogOrder == <<"primary", "secondary">>

\* The cleanups of the scroll-lock effects of the instances ds, in order,
\* each with what it captured.
RECURSIVE ScrollCleanups(_, _)
ScrollCleanups(ds, ov) ==
  IF ds = <<>> THEN ov
  ELSE ScrollCleanups(Tail(ds), ScrollCleanup(scrollDeps[Head(ds)], ov))

\* The scroll-lock effects of the instances ds, in order, with props np.
RECURSIVE ScrollEffects(_, _, _)
ScrollEffects(ds, np, ov) ==
  IF ds = <<>> THEN ov
  ELSE ScrollEffects(Tail(ds), np, ScrollEffect(np[Head(ds)], ov))

\* The cleanups of the keydown effects of the instances ds.
RECURSIVE KeyCleanups(_, _)
KeyCleanups(ds, ls) ==
  IF ds = <<>> THEN ls
  ELSE KeyCleanups(Tail(ds), RemoveListener(ls, keyHandler[Head(ds)]))

\* The keydown effects of the instances ds, in order, with props np: each
\* registers a new closure and its cleanup captures it.
RECURSIVE KeyEffects(_, _, _)
KeyEffects(ds, np, acc) ==
  IF ds = <<>> THEN acc
  ELSE LET d == Head(ds)
           h == NewHandler(d, np[d], acc.listeners)
       IN  KeyEffects(Tail(ds), np,
             [listeners  |-> AddListener(acc.listeners, h),
              keyHandler |-> [acc.keyHandler EXCEPT ![d] = h]])

\* The commit of a render that gives the mounted instances the props np:
\* the cleanups of the effects whose dependencies changed run with what they
\* captured, then those effects run with the new props.
Commit(np) ==
  LET ScrollChanged(d) == mounted[d] /\ ScrollDepsOf(np[d]) # scrollDeps[d]
      KeyChanged(d)    == mounted[d]
                          /\ KeyDepsOf(np[d]) # KeyDepsOfHandler(keyHandler[d])
      sds   == SelectSeq(DialogOrder, ScrollChanged)
      kds   == SelectSeq(DialogOrder, KeyChanged)
      keyed == KeyEffects(kds, np,
                 [listeners  |-> KeyCleanups(kds, listeners),
                  keyHandler |-> keyHandler])
  IN  /\ props' = np
      /\ view' = [d \in Dialogs |-> IF mounted[d] THEN Render(np[d]) ELSE {}]
      /\ style' = [d \in Dialogs |->
                     IF mounted[d] THEN RenderStyle(np[d]) ELSE None]
      /\ overflow' = ScrollEffects(sds, np, ScrollCleanups(sds, overflow))
      /\ scrollDeps' = [d \in Dialogs |->
                          IF mounted[d] THEN ScrollDepsOf(np[d]) ELSE None]
      /\ listeners' = keyed.listeners
      /\ keyHandler' = keyed.keyHandler
      /\ everOpen' = [d \in Dialogs |->
                        everOpen[d] \/ (mounted[d] /\ np[d].open)]
      /\ UNCHANGED <<mounted, play>>

\* The most props one re-render changes.
MaxChanged == 2

PropNames == DOMAIN DefaultProps(FALSE, "cbA")

\* The props a re-render of an arbitrary host changes.
VariedProps == PropNames \ {"size", "fullWidth"}

\* The sets of props a re-render changes.
ChangeSets ==
  {fs \in SUBSET VariedProps : fs # {} /\ Cardinality(fs) <= MaxChanged}

\* Another value of prop f than v: the other boolean, another callback.
OtherValue(f, v) ==
  IF f = "onClose" THEN CHOOSE c \in Callbacks : c # v ELSE ~v

\* The props p with the props named in fs changed.
WithChanged(p, fs) ==
  [f \in PropNames |-> IF f \in fs THEN OtherValue(f, p[f]) ELSE p[f]]

\* Whether np differs from p in `open` and in nothing else.
OnlyOpenToggled(p, np) == np = [p EXCEPT !.open = ~p.open]

\* The host re-renders instance d with the props named in fs changed.
Rerender(d, fs) ==
  /\ mounted[d]
  /\ LET np == WithChanged(props[d], fs)
     IN  /\ Commit([props EXCEPT ![d] = np])
         /\ seqStart' = IF OnlyOpenToggled(props[d], np) THEN seqStart
                        ELSE [open |-> np.open, overflow |-> overflow']
  /\ log' = HostLog("render", d)

\* The host removes instance d: both cleanups run.
Unmount(d) ==
  /\ mounted[d]
  /\ mounted' = [mounted EXCEPT ![d] = FALSE]
  /\ props' = [props EXCEPT ![d] = NoProps]
  /\ view' = [view EXCEPT ![d] = {}]
  /\ style' = [style EXCEPT ![d] = None]
  /\ overflow' = ScrollCleanup(scrollDeps[d], overflow)
  /\ scrollDeps' = [scrollDeps EXCEPT ![d] = None]
  /\ listeners' = RemoveListener(listeners, keyHandler[d])
  /\ keyHandler' = [keyHandler EXCEPT ![d] = None]
  /\ seqStart' = [open |-> FALSE, overflow |-> overflow']
  /\ log' = HostLog("unmount", d)
  /\ UNCHANGED <<everOpen, play>>

\* Mutant: the component hides itself when a handler invokes onClose.
KeyDownSelfClosing(key) ==
  LET r == DispatchKey(listeners, key, [ran |-> <<>>, calls |-> <<>>])
  IN  /\ log' = EventLog("keydown", "", key, r)
      /\ view' = [d \in Dialogs |->
                    IF \E i \in 1..Len(listeners) :
                         listeners[i].owner = d /\ handleKeyDown(listeners[i], key)
                    THEN {} ELSE view[d]]
      /\ UNCHANGED <<mounted, props, style, scrollDeps, keyHandler, listeners,
                     overflow, seqStart, everOpen, play>>

\* A keydown event on the document.
KeyDown(key) ==
  /\ log' = EventLog("keydown", "", key,
                     DispatchKey(listeners, key, [ran |-> <<>>, calls |-> <<>>]))
  /\ UNCHANGED <<mounted, props, view, style, scrollDeps, keyHandler,
                 listeners, overflow, seqStart, everOpen, play>>

\* A click whose target is an element instance d rendered.
Click(d, target) ==
  /\ mounted[d]
  /\ target \in view[d]
  /\ log' = EventLog("click", d, target, DispatchClick(props[d], target))
  /\ UNCHANGED <<mounted, props, view, style, scrollDeps, keyHandler,
                 listeners, overflow, seqStart, everOpen, play>>

----------------------------------------------------------------------------
(* One Dialog under an arbitrary host *)

Init ==
  /\ mounted = [d \in Dialogs |-> FALSE]
  /\ props = [d \in Dialogs |-> NoProps]
  /\ view = [d \in Dialogs |-> {}]
  /\ style = [d \in Dialogs |-> None]
  /\ scrollDeps = [d \in Dialogs |-> None]
  /\ keyHandler = [d \in Dialogs |-> None]
  /\ listeners = <<>>
  /\ overflow \in OverflowValues
  /\ log = HostLog("none", "")
  /\ seqStart = [open |-> FALSE, overflow |-> overflow]
  /\ everOpen = [d \in Dialogs |-> FALSE]
  /\ play = PlayIdle

Next ==
  \/ \E p \in PropsSet : Mount(TheDialog, p)
  \/ \E fs \in ChangeSets : Rerender(TheDialog, fs)
  \/ Unmount(TheDialog)
  \/ \E key \in Keys : KeyDown(key)
  \/ \E target \in Elements : Click(TheDialog, target)

Spec == Init /\ [][Next]_vars

\* The same Dialog on a page where nothing else writes the body's overflow.
InitAlone == Init /\ overflow = ""

SpecAlone == InitAlone /\ [][Next]_vars

----------------------------------------------------------------------------
(* One Dialog under hosts that leave optional props out *)

\* The props a host must pass, and those it may leave out.
RequiredProps == {"open", "onClose"}

OptionalProps == PropNames \ RequiredProps

\* The most optional props a host passes.
MaxGiven == 2

\* The values a host may pass for prop f.
ValuesOf(f) ==
  CASE f = "size"    -> Sizes
    [] f = "onClose" -> Callbacks
    [] OTHER         -> BOOLEAN

\* What a host passes: open, onClose and up to MaxGiven optional props.
\* The props objects that pass exactly the props ns.
RECURSIVE GivensOver(_)
GivensOver(ns) ==
  IF ns = {} THEN {[f \in {} |-> TRUE]}
  ELSE LET f == CHOOSE x \in ns : TRUE
       IN  {[x \in DOMAIN g \cup {f} |-> IF x = f THEN v ELSE g[x]] :
              g \in GivensOver(ns \ {f}), v \in ValuesOf(f)}

Givens ==
  UNION {GivensOver(RequiredProps \cup ns) :
           ns \in {n \in SUBSET OptionalProps : Cardinality(n) <= MaxGiven}}

\* The destructuring of the component's parameter: a prop left out takes
\* its default.
Destructure(g) ==
  [f \in PropNames |->
     IF f \in DOMAIN g THEN g[f] ELSE DefaultProps(g.open, g.onClose)[f]]

\* First render of instance d by a host that passes g.
MountGiven(d, g) == Mount(d, Destructure(g))

NextDefaults ==
  \/ \E g \in Givens : MountGiven(TheDialog, g)
  \/ Unmount(TheDialog)
  \/ \E key \in Keys : KeyDown(key)
  \/ \E target \in Elements : Click(TheDialog, target)

SpecDefaults == Init /\ [][NextDefaults]_vars

----------------------------------------------------------------------------
(* The InteractiveDialog stories: one Dialog under a host with isOpen *)

\* No state update is waiting for React to re-render.
Settled == log.calls = <<>>

\* The host defines handleClose anew on every render; two identities tell
\* one render's function from the next one's.
InteractiveOnClose(gen) ==
  IF gen = "a" THEN "handleClose/a" ELSE "handleClose/b"

\* Mutant: handleClose leaves isOpen as it is.
handleCloseKeepsState(isOpen) == isOpen

\* handleClose: setIsOpen(false).
handleClose(isOpen) == FALSE

\* The args of the story the model varies (Storybook's controls).  The story
\* itself sets only open and children.
InteractiveArgs ==
  [closeOnEscape: BOOLEAN, closeOnOutsideClick: BOOLEAN, usePortal: BOOLEAN]

\* What the story's render passes to the Dialog: {...args}, then open and
\* onClose; every prop the args leave out takes its default.
InteractiveProps(args, isOpen, gen) ==
  [DefaultProps(isOpen, InteractiveOnClose(gen))
     EXCEPT !.closeOnEscape = args.closeOnEscape,
            !.closeOnOutsideClick = args.closeOnOutsideClick,
            !.usePortal = args.usePortal]

\* The args and the identity generation of the render in the DOM.
InteractiveRenderedArgs ==
  [closeOnEscape |-> props[TheDialog].closeOnEscape,
   closeOnOutsideClick |-> props[TheDialog].closeOnOutsideClick,
   usePortal |-> props[TheDialog].usePortal]

InteractiveNextGen ==
  IF props[TheDialog].onClose = InteractiveOnClose("a") THEN "b" ELSE "a"

\* The host's render committed with the given state, after the event cause
\* on the element or key arg.
InteractiveRender(isOpen, arg) ==
  /\ Commit([props EXCEPT ![TheDialog] =
               InteractiveProps(InteractiveRenderedArgs, isOpen,
                                InteractiveNextGen)])
  /\ seqStart' = [open |-> isOpen, overflow |-> overflow']
  /\ log' = [HostLog("render", TheDialog) EXCEPT !.arg = arg]

\* A click on "Open Dialog": setIsOpen(true).
InteractiveOpen ==
  /\ Settled
  /\ ~props[TheDialog].open
  /\ InteractiveRender(TRUE, "Open Dialog")

\* A click on "Cancel" or "Confirm", the actions of the open Dialog: the
\* button's onClick is handleClose.
InteractiveAction(button) ==
  /\ Settled
  /\ props[TheDialog].open
  /\ log' = EventLog("click", TheDialog, button,
               [ran |-> <<>>,
                calls |-> <<[by |-> button, cb |-> props[TheDialog].onClose]>>])
  /\ UNCHANGED <<mounted, props, view, style, scrollDeps, keyHandler,
                 listeners, overflow, seqStart, everOpen, play>>

\* React re-renders after an event whose handlers invoked handleClose.
InteractiveReact ==
  /\ ~Settled
  /\ InteractiveRender(handleClose(props[TheDialog].open), log.arg)

\* The story mounted: the Dialog closed, its effects run.
InitInteractive ==
  \E args \in InteractiveArgs :
  LET p == InteractiveProps(args, FALSE, "a")
      h == NewHandler(TheDialog, p, <<>>)
  IN  /\ mounted = [d \in Dialogs |-> d = TheDialog]
      /\ props = [d \in Dialogs |-> IF d = TheDialog THEN p ELSE NoProps]
      /\ view = [d \in Dialogs |-> IF d = TheDialog THEN Render(p) ELSE {}]
      /\ style = [d \in Dialogs |->
                    IF d = TheDialog THEN RenderStyle(p) ELSE None]
      /\ \E ov \in OverflowValues : overflow = ScrollEffect(p, ov)
      /\ scrollDeps = [d \in Dialogs |->
                         IF d = TheDialog THEN ScrollDepsOf(p) ELSE None]
      /\ listeners = AddListener(<<>>, h)
      /\ keyHandler = [d \in Dialogs |-> IF d = TheDialog THEN h ELSE None]
      /\ log = HostLog("mount", TheDialog)
      /\ seqStart = [open |-> FALSE, overflow |-> overflow]
      /\ everOpen = [d \in Dialogs |-> FALSE]
      /\ play = PlayIdle

NextInteractive ==
  \/ InteractiveOpen
  \/ \E button \in {"Cancel", "Confirm"} : InteractiveAction(button)
  \/ InteractiveReact
  \/ \E key \in Keys : Settled /\ KeyDown(key)
  \/ \E target \in Elements : Settled /\ Click(TheDialog, target)

SpecInteractive == InitInteractive /\ [][NextInteractive]_vars

----------------------------------------------------------------------------
(* The NestedDialogs story: two Dialogs under one host *)

\* The host passes each Dialog a new arrow function on every render; two
\* identities per Dialog tell one render's function from the next one's.
NestedOnClose(d, gen) ==
  IF d = "primary"
  THEN (IF gen = "a" THEN "setPrimaryOpen(false)/a" ELSE "setPrimaryOpen(false)/b")
  ELSE (IF gen = "a" THEN "setSecondaryOpen(false)/a" ELSE "setSecondaryOpen(false)/b")

\* The Dialog whose open state the callback sets to false.
Closes(cb) ==
  IF cb \in {"setPrimaryOpen(false)/a", "setPrimaryOpen(false)/b"}
  THEN "primary" ELSE "secondary"

\* The args of the story the model varies (Storybook's controls): the two
\* dismissal flags.  The story itself sets only open and children.
NestedArgs == [closeOnEscape: BOOLEAN, closeOnOutsideClick: BOOLEAN]

\* What the story's render passes to both Dialogs: {...args}, then open and
\* onClose; every prop the args leave out takes its default.
NestedProps(args, isPrimaryOpen, isSecondaryOpen, gen) ==
  [d \in Dialogs |->
     [DefaultProps(IF d = "primary" THEN isPrimaryOpen ELSE isSecondaryOpen,
                   NestedOnClose(d, gen))
        EXCEPT !.closeOnEscape = args.closeOnEscape,
               !.closeOnOutsideClick = args.closeOnOutsideClick]]

\* The args of the render in the DOM.
RenderedArgs ==
  [closeOnEscape |-> props["primary"].closeOnEscape,
   closeOnOutsideClick |-> props["primary"].closeOnOutsideClick]

\* The identity generation of the render in the DOM, and the next one's.
RenderedGen ==
  IF props["primary"].onClose = NestedOnClose("primary", "a") THEN "a" ELSE "b"

NextGen == IF RenderedGen = "a" THEN "b" ELSE "a"

\* The host's render committed with the given state.
NestedRender(isPrimaryOpen, isSecondaryOpen) ==
  /\ Commit(NestedProps(RenderedArgs, isPrimaryOpen, isSecondaryOpen, NextGen))
  /\ seqStart' = [open |-> isPrimaryOpen, overflow |-> overflow']
  /\ log' = HostLog("render", "")

\* A click on "Open Primary Dialog": setPrimaryOpen(true).
NestedOpenPrimary ==
  /\ Settled
  /\ ~props["primary"].open
  /\ NestedRender(TRUE, props["secondary"].open)

\* A click on "Open Secondary Dialog", a child of the primary's content:
\* setSecondaryOpen(true).
NestedOpenSecondary ==
  /\ Settled
  /\ "content" \in view["primary"]
  /\ ~props["secondary"].open
  /\ NestedRender(props["primary"].open, TRUE)

\* React re-renders after an event whose handlers invoked onClose: each
\* callback invoked has set its Dialog's open state to false.
NestedReact ==
  /\ ~Settled
  /\ LET closed == {Closes(log.calls[i].cb) : i \in 1..Len(log.calls)}
     IN  NestedRender(props["primary"].open /\ "primary" \notin closed,
                      props["secondary"].open /\ "secondary" \notin closed)

\* The story mounted: both Dialogs closed, their effects run in order.
InitNested ==
  \E args \in NestedArgs :
  LET p     == NestedProps(args, FALSE, FALSE, "a")
      keyed == KeyEffects(DialogOrder, p,
                 [listeners  |-> <<>>,
                  keyHandler |-> [d \in Dialogs |-> None]])
  IN  /\ mounted = [d \in Dialogs |-> TRUE]
      /\ props = p
      /\ view = [d \in Dialogs |-> Render(p[d])]
      /\ style = [d \in Dialogs |-> RenderStyle(p[d])]
      /\ \E ov \in OverflowValues : overflow = ScrollEffects(DialogOrder, p, ov)
      /\ scrollDeps = [d \in Dialogs |-> ScrollDepsOf(p[d])]
      /\ listeners = keyed.listeners
      /\ keyHandler = keyed.keyHandler
      /\ log = HostLog("mount", "")
      /\ seqStart = [open |-> FALSE, overflow |-> overflow]
      /\ everOpen = [d \in Dialogs |-> FALSE]
      /\ play = PlayIdle

NextNested ==
  \/ NestedOpenPrimary
  \/ NestedOpenSecondary
  \/ NestedReact
  \/ \E key \in Keys : Settled /\ KeyDown(key)
  \/ \E d \in Dialogs, target \in Elements : Settled /\ Click(d, target)

SpecNested == InitNested /\ [][NextNested]_vars

----------------------------------------------------------------------------
(* The AuthForm stories: play functions run against the LoginForm *)

Stories ==
  {"Default", "WithEmailFilled", "WithPasswordFilled", "FilledForm",
   "OldFashionedFilledForm"}

\* The elements the play functions look up in the canvas: the inputs
\* labelled Email and Password and the button named Login.
FormElements == {"Email", "Password", "Login"}

\* The local constants of the play functions.
LocalNames == {"canvas", "emailInput", "passwordInput", "submitButton"}

\* 'test@example.com' and 'password123', key by key.
EmailText ==
  <<"t", "e", "s", "t", "@", "e", "x", "a", "m", "p", "l", "e", ".", "c",
    "o", "m">>

PasswordText == <<"p", "a", "s", "s", "w", "o", "r", "d", "1", "2", "3">>

\* One awaited statement of a play function: the operation, the local it
\* defines or uses, and its other argument.
Stmt(op, var, arg) == [op |-> op, var |-> var, arg |-> arg]

WithEmailFilledPlay ==
  <<Stmt("within", "canvas", "canvasElement"),
    Stmt("getByLabelText", "emailInput", "Email"),
    Stmt("type", "emailInput", EmailText)>>

WithPasswordFilledPlay ==
  <<Stmt("within", "canvas", "canvasElement"),
    Stmt("getByLabelText", "passwordInput", "Password"),
    Stmt("type", "passwordInput", PasswordText)>>

\* Mutant: the composed story leaves the password's play function out.
FilledFormPlayEmailOnly ==
  <<Stmt("within", "canvas", "canvasElement"),
    Stmt("call", "", "WithEmailFilled"),
    Stmt("getByRole", "submitButton", "Login"),
    Stmt("click", "submitButton", <<>>)>>

FilledFormPlay ==
  <<Stmt("within", "canvas", "canvasElement"),
    Stmt("call", "", "WithEmailFilled"),
    Stmt("call", "", "WithPasswordFilled"),
    Stmt("getByRole", "submitButton", "Login"),
    Stmt("click", "submitButton", <<>>)>>

OldFashionedFilledFormPlay ==
  <<Stmt("within", "canvas", "canvasElement"),
    Stmt("getByLabelText", "emailInput", "Email"),
    Stmt("type", "emailInput", EmailText),
    Stmt("getByLabelText", "passwordInput", "Password"),
    Stmt("type", "passwordInput", PasswordText),
    Stmt("getByRole", "submitButton", "Login"),
    Stmt("click", "submitButton", <<>>)>>

\* The play function of a story; Default has none.
PlayOf(story) ==
  CASE story = "WithEmailFilled"        -> WithEmailFilledPlay
    [] story = "WithPasswordFilled"     -> WithPasswordFilledPlay
    [] story = "FilledForm"             -> FilledFormPlay
    [] story = "OldFashionedFilledForm" -> OldFashionedFilledFormPlay
    [] OTHER                            -> <<>>

\* A call of a story's play function: at its first statement, no local set.
Frame(fn) == [fn |-> fn, pc |-> 1, env |-> [v \in LocalNames |-> ""]]

\* The running call and the statement it is at.
Top == play.stack[Len(play.stack)]

AtStmt(ops) ==
  /\ play.stack # <<>>
  /\ Top.pc <= Len(PlayOf(Top.fn))
  /\ PlayOf(Top.fn)[Top.pc].op \in ops

Current == PlayOf(Top.fn)[Top.pc]

\* The stack with the running call's statement done and var, if any, set.
Advance(stack, var, value) ==
  [stack EXCEPT ![Len(stack)] =
     [@ EXCEPT !.pc = @ + 1,
               !.env = [v \in LocalNames |-> IF v = var THEN value ELSE @[v]]]]

\* A userEvent call on element el.
Interaction(op, el) == [op |-> op, target |-> el, text |-> <<>>]

\* Storybook renders a story anew and calls its play function.
PlayStory(story) ==
  /\ play.stack = <<>>
  /\ play' = [story |-> story,
              stack |-> IF PlayOf(story) = <<>> THEN <<>> ELSE <<Frame(story)>>,
              focus |-> "", typing |-> <<>>, interactions |-> <<>>]
  /\ UNCHANGED dialogVars

\* const canvas = within(canvasElement)
PlayWithin ==
  /\ AtStmt({"within"})
  /\ play' = [play EXCEPT !.stack = Advance(@, Current.var, Current.arg)]
  /\ UNCHANGED dialogVars

\* canvas.getByLabelText(name), canvas.getByRole('button', { name }): the
\* element of the LoginForm with that label or name.
PlayQuery ==
  /\ AtStmt({"getByLabelText", "getByRole"})
  /\ Top.env["canvas"] = "canvasElement"
  /\ Current.arg \in FormElements
  /\ play' = [play EXCEPT !.stack = Advance(@, Current.var, Current.arg)]
  /\ UNCHANGED dialogVars

\* await Story.play(canvasContext): the called play function starts; the
\* caller stays at the call.
PlayCall ==
  /\ AtStmt({"call"})
  /\ play' = [play EXCEPT !.stack = Append(@, Frame(Current.arg))]
  /\ UNCHANGED dialogVars

\* A play function ran to its end: its caller, if any, goes on.
PlayReturn ==
  /\ play.stack # <<>>
  /\ Top.pc > Len(PlayOf(Top.fn))
  /\ LET rest == SubSeq(play.stack, 1, Len(play.stack) - 1)
     IN  play' = [play EXCEPT !.stack =
                    IF rest = <<>> THEN rest ELSE Advance(rest, "", "")]
  /\ UNCHANGED dialogVars

\* userEvent.type(element, text) begins: it clicks the element, which takes
\* the focus.
PlayTypeStart ==
  /\ AtStmt({"type"})
  /\ play.typing = <<>>
  /\ Top.env[Current.var] \in FormElements
  /\ play' = [play EXCEPT
                !.focus = Top.env[Current.var],
                !.typing = Current.arg,
                !.interactions = Append(@, Interaction("type", Top.env[Current.var]))]
  /\ UNCHANGED dialogVars

\* userEvent.type keys the next character into the focused element; after
\* the last one the call is over.
PlayTypeChar ==
  /\ play.typing # <<>>
  /\ LET n == Len(play.interactions)
     IN  play' = [play EXCEPT
                    !.typing = Tail(@),
                    !.interactions[n].text = Append(@, Head(play.typing)),
                    !.stack = IF Tail(play.typing) = <<>>
                              THEN Advance(@, "", "") ELSE @]
  /\ UNCHANGED dialogVars

\* userEvent.click(element)
PlayClick ==
  /\ AtStmt({"click"})
  /\ Top.env[Current.var] \in FormElements
  /\ play' = [play EXCEPT
                !.focus = Top.env[Current.var],
                !.interactions = Append(@, Interaction("click", Top.env[Current.var])),
                !.stack = Advance(@, "", "")]
  /\ UNCHANGED dialogVars

NextForm ==
  \/ \E story \in Stories : PlayStory(story)
  \/ PlayWithin
  \/ PlayQuery
  \/ PlayCall
  \/ PlayReturn
  \/ PlayTypeStart
  \/ PlayTypeChar
  \/ PlayClick

SpecForm == InitAlone /\ [][NextForm]_vars

----------------------------------------------------------------------------
(* Properties *)

\* The instance is mounted and its latest render had open = TRUE.
IsOpen(d) == mounted[d] /\ props[d].open

\* The document keydown listeners instance d registered.
ListenersOf(d) == SelectSeq(listeners, LAMBDA h : h.owner = d)

\* The last step was an input event.
IsEvent(l) == l.kind \in {"keydown", "click"}

\* C1: with two mounted Dialogs that both have disableBodyScroll enabled,
\* the body's overflow is 'hidden' whenever at least one of them is open.
C1_LockedWhileAnyOpen ==
  (/\ \A d \in Dialogs : mounted[d] /\ props[d].disableBodyScroll
   /\ \E d \in Dialogs : props[d].open)
  => overflow = "hidden"

\* C2: for a Dialog with disableBodyScroll enabled, after any run of toggles
\* of open, once open is back at the value it had before the run the body's
\* overflow is the value it had before the run.
C2_TogglesRestoreOverflow ==
  (/\ mounted[TheDialog]
   /\ props[TheDialog].disableBodyScroll
   /\ props[TheDialog].open = seqStart.open)
  => overflow = seqStart.overflow

C4_NeverOpenNeverWrites ==
  [][~everOpen'[TheDialog] => overflow' = overflow]_vars

\* C5: one keydown on a single open Dialog invokes onClose exactly once if
\* the key is Escape and closeOnEscape is enabled, and not at all otherwise.
C5_EscapeClosesOnceIffEnabled ==
  (log.kind = "keydown" /\ IsOpen(TheDialog))
  => log.calls =
       IF log.arg = "Escape" /\ props[TheDialog].closeOnEscape
       THEN <<[by |-> "keydown", cb |-> props[TheDialog].onClose]>>
       ELSE <<>>

\* C5 witness: Escape on an open Dialog with closeOnEscape made one call.
C5_Witness ==
  /\ log.kind = "keydown"
  /\ log.arg = "Escape"
  /\ IsOpen(TheDialog)
  /\ props[TheDialog].closeOnEscape
  /\ Len(log.calls) = 1

\* C6: a click whose target is the backdrop itself invokes onClose (once) if
\* and only if closeOnOutsideClick is enabled.
C6_BackdropClickClosesIffEnabled ==
  (log.kind = "click" /\ log.arg = "backdrop")
  => log.calls =
       IF props[log.dialog].closeOnOutsideClick
       THEN <<[by |-> "backdrop", cb |-> props[log.dialog].onClose]>>
       ELSE <<>>

\* C6 witness: a backdrop click with closeOnOutsideClick disabled ran the
\* backdrop handler.
C6_Witness ==
  /\ log.kind = "click"
  /\ log.arg = "backdrop"
  /\ ~props[log.dialog].closeOnOutsideClick
  /\ log.ran = <<"backdrop">>

\* C7: a click on the panel or on a descendant of it never runs the backdrop
\* click handler, so no onClose call comes from the backdrop.
C7_PanelClickNeverReachesBackdrop ==
  (log.kind = "click" /\ log.arg # "backdrop")
  => /\ \A i \in 1..Len(log.ran) : log.ran[i] # "backdrop"
     /\ \A i \in 1..Len(log.calls) : log.calls[i].by # "backdrop"

\* C7 witness: a click on the content with closeOnOutsideClick enabled ran
\* the panel's handler.
C7_Witness ==
  /\ log.kind = "click"
  /\ log.arg = "content"
  /\ props[log.dialog].closeOnOutsideClick
  /\ log.ran = <<"panel">>

\* C8: a click on the close button invokes onClose exactly once, from the
\* button, whatever closeOnOutsideClick and closeOnEscape are.
C8_CloseButtonClosesOnce ==
  (log.kind = "click" /\ log.arg = "closeButton")
  => log.calls = <<[by |-> "closeButton", cb |-> props[log.dialog].onClose]>>

\* C8 witness: the close button was clicked with both dismissal flags
\* disabled.
C8_Witness ==
  /\ log.kind = "click"
  /\ log.arg = "closeButton"
  /\ ~props[log.dialog].closeOnOutsideClick
  /\ ~props[log.dialog].closeOnEscape
  /\ Len(log.calls) = 1

\* C9: an input event changes neither what the Dialog renders nor its props,
\* and a mounted Dialog's overlay goes away only in a host render that
\* changes open from true to false.
C9_OnlyHostCloses ==
  [][/\ IsEvent(log') => (view' = view /\ props' = props /\ mounted' = mounted)
     /\ \A d \in Dialogs :
          (view[d] # {} /\ view'[d] = {} /\ mounted'[d])
          => (log'.kind = "render" /\ props[d].open /\ ~props'[d].open)]_vars

\* C9 witness: a handler invoked onClose and the overlay is still rendered.
C9_Witness ==
  /\ IsEvent(log)
  /\ log.calls # <<>>
  /\ view[TheDialog] # {}

\* C10: a mounted Dialog has exactly one document keydown listener, the one
\* its cleanup captured, and an unmounted one has none.
C10_OneListenerWhileMounted ==
  \A d \in Dialogs :
    /\ mounted[d] => ListenersOf(d) = <<keyHandler[d]>>
    /\ ~mounted[d] => ListenersOf(d) = <<>>

\* C10 witness: after a re-render the Dialog's one listener carries the
\* props of that render.
C10_Witness ==
  /\ log.kind = "render"
  /\ mounted[TheDialog]
  /\ Len(listeners) = 1
  /\ KeyDepsOfHandler(listeners[1]) = KeyDepsOf(props[TheDialog])
  /\ listeners[1].onClose = "cbB"

\* C11: the handling of one keydown or one click on an open Dialog invokes
\* onClose at most once, whatever the configuration and the target.
C11_AtMostOneClosePerEvent ==
  IsEvent(log) => Len(log.calls) <= 1

\* C11 witness: a click on the close button ran two handlers (the button's
\* and the panel's) with closeOnOutsideClick enabled, and made one call.
C11_Witness ==
  /\ log.kind = "click"
  /\ log.ran = <<"closeButton", "panel">>
  /\ props[log.dialog].closeOnOutsideClick
  /\ Len(log.calls) = 1

\* The props p with usePortal the other way.
OtherPortal(p) == [p EXCEPT !.usePortal = ~p.usePortal]

C13_HiddenIffOpenAndLocking ==
  overflow =
    IF IsOpen(TheDialog) /\ props[TheDialog].disableBodyScroll
    THEN "hidden" ELSE ""

\* C13 witness: the Dialog was unmounted after it had been open and the
\* body's overflow is cleared.
C13_Witness ==
  /\ log.kind = "unmount"
  /\ everOpen[TheDialog]
  /\ overflow = ""

\* C17: in the NestedDialogs story, one Escape keydown while both Dialogs
\* are open with closeOnEscape invokes the onClose of each of them exactly
\* once: the primary's and the secondary's, in registration order.
C17_EscapeClosesBothOpenDialogs ==
  (/\ log.kind = "keydown"
   /\ log.arg = "Escape"
   /\ \A d \in Dialogs : IsOpen(d) /\ props[d].closeOnEscape)
  => log.calls = <<[by |-> "keydown", cb |-> props["primary"].onClose],
                   [by |-> "keydown", cb |-> props["secondary"].onClose]>>

\* C17 witness: Escape was pressed with both Dialogs open and both
\* callbacks were invoked.
C17_Witness ==
  /\ log.kind = "keydown"
  /\ log.arg = "Escape"
  /\ \A d \in Dialogs : IsOpen(d) /\ props[d].closeOnEscape
  /\ {Closes(log.calls[i].cb) : i \in 1..Len(log.calls)} = Dialogs

\* C18: the keydown listener of a mounted Dialog is a closure over the
\* closeOnEscape, open and onClose of its latest render, and a keydown
\* invokes that render's onClose, and only when that render's closeOnEscape
\* and open are true and the key is Escape.
C18_ListenerUsesLatestProps ==
  mounted[TheDialog]
  => /\ \A i \in 1..Len(listeners) :
          /\ listeners[i].closeOnEscape = props[TheDialog].closeOnEscape
          /\ listeners[i].open = props[TheDialog].open
          /\ listeners[i].onClose = props[TheDialog].onClose
     /\ log.kind = "keydown"
        => \A i \in 1..Len(log.calls) :
             /\ log.calls[i].cb = props[TheDialog].onClose
             /\ props[TheDialog].closeOnEscape
             /\ props[TheDialog].open

\* C18 witness: Escape invoked cbB, the onClose of the latest render.
C18_Witness ==
  /\ mounted[TheDialog]
  /\ log.kind = "keydown"
  /\ log.arg = "Escape"
  /\ log.calls = <<[by |-> "keydown", cb |-> "cbB"]>>
  /\ props[TheDialog].onClose = "cbB"

\* C14: while the Dialog is open the browser displays its panel, whether
\* showBackdrop is true or false.
C14_PanelDisplayedWhileOpen ==
  \A d \in Dialogs :
    IsOpen(d) => Displayed(view[d], style[d], "panel")

\* C15: a Dialog whose host passes only open and onClose is rendered with
\* size medium, showCloseButton, closeOnOutsideClick, closeOnEscape,
\* showBackdrop, disableBodyScroll and usePortal true, and fullWidth false.
C15_DefaultsWhenOnlyOpenAndOnClose ==
  [][\A g \in Givens :
       (DOMAIN g = RequiredProps /\ MountGiven(TheDialog, g))
       => props'[TheDialog] =
            [open |-> g.open, onClose |-> g.onClose, size |-> "medium",
             showCloseButton |-> TRUE, closeOnOutsideClick |-> TRUE,
             closeOnEscape |-> TRUE, showBackdrop |-> TRUE,
             disableBodyScroll |-> TRUE, usePortal |-> TRUE,
             fullWidth |-> FALSE]]_vars

\* C15 witness: a Dialog mounted open with every optional prop at the value
\* the claim names; it locked the body's scroll and its panel is 600px wide.
C15_Witness ==
  /\ log.kind = "mount"
  /\ props[TheDialog] = DefaultProps(TRUE, "cbA")
  /\ overflow = "hidden"
  /\ style[TheDialog].panel.width = "600px"

\* The width the claim gives for fullWidth = FALSE.
FixedWidth(size) ==
  CASE size = "small" -> "400px"
    [] size = "large" -> "800px"
    [] OTHER          -> "600px"

\* C19 as stated: with fullWidth the panel's width is '100%' for every size,
\* and without it 400px, 600px, 800px for small, medium, large.
C19_FullWidthForEverySize ==
  IsOpen(TheDialog)
  => LET p == props[TheDialog]
         w == style[TheDialog].panel.width
     IN  /\ p.fullWidth => w = "100%"
         /\ (~p.fullWidth /\ p.size # "fullscreen") => w = FixedWidth(p.size)

\* C19 amended: with fullWidth the panel's width is '100%' for small, medium
\* and large, and without it 400px, 600px, 800px; for fullscreen it is
\* '100vw' whatever fullWidth is.
C19_FullWidthExceptFullscreen ==
  IsOpen(TheDialog)
  => LET p == props[TheDialog]
         w == style[TheDialog].panel.width
     IN  /\ (p.fullWidth /\ p.size # "fullscreen") => w = "100%"
         /\ (~p.fullWidth /\ p.size # "fullscreen") => w = FixedWidth(p.size)
         /\ p.size = "fullscreen" => w = "100vw"

\* C19 witness: a fullscreen Dialog with fullWidth is open and 100vw wide.
C19_Witness ==
  /\ IsOpen(TheDialog)
  /\ props[TheDialog].size = "fullscreen"
  /\ props[TheDialog].fullWidth
  /\ style[TheDialog].panel.width = "100vw"

\* C16: under the InteractiveDialog host, a click on the Close control of
\* the Dialog opened by 'Open Dialog' invokes handleClose, and the render
\* that follows it is closed: no overlay is rendered and the body's overflow
\* is cleared.
C16_OpenThenCloseEndsClosed ==
  /\ (log.kind = "click" /\ log.arg = "closeButton") => ~Settled
  /\ (log.kind = "render" /\ log.arg = "closeButton")
     => /\ ~IsOpen(TheDialog)
        /\ view[TheDialog] = {}
        /\ overflow = ""

\* C16 witness: the render after the click on Close, of a Dialog that was
\* open, shows no overlay and has cleared the overflow.
C16_Witness ==
  /\ log.kind = "render"
  /\ log.arg = "closeButton"
  /\ everOpen[TheDialog]
  /\ view[TheDialog] = {}
  /\ overflow = ""

\* The interactions the claim lists: type the email, type the password,
\* click Login.
FilledInteractions ==
  <<[op |-> "type", target |-> "Email", text |-> EmailText],
    [op |-> "type", target |-> "Password", text |-> PasswordText],
    [op |-> "click", target |-> "Login", text |-> <<>>]>>

IsPrefix(a, b) ==
  /\ Len(a) <= Len(b)
  /\ \A i \in 1..Len(a) : a[i] = b[i]

\* C20: the play functions of FilledForm and of OldFashionedFilledForm
\* perform the same interactions in the same order: at every moment of
\* either run the userEvent calls made so far are the first ones of "type
\* the email, type the password, click Login", and when the run is over
\* they are exactly these three.
C20_FilledFormPlaysAsOldFashioned ==
  play.story \in {"FilledForm", "OldFashionedFilledForm"}
  => LET done == play.interactions
         n    == Len(done)
     IN  /\ n <= Len(FilledInteractions)
         /\ \A i \in 1..n :
              /\ done[i].op = FilledInteractions[i].op
              /\ done[i].target = FilledInteractions[i].target
              /\ IsPrefix(done[i].text, FilledInteractions[i].text)
              /\ i < n => done[i] = FilledInteractions[i]
         /\ play.stack = <<>> => done = FilledInteractions

\* C20 witness: the play function of FilledForm returned after its three
\* interactions, the last of them the click on Login.
C20_Witness ==
  /\ play.story = "FilledForm"
  /\ play.stack = <<>>
  /\ play.focus = "Login"
  /\ play.interactions = FilledInteractions

====
